---- MODULE Spec2Model ----
(***************************************************************************)
(* claude-meter: the usage-aggregation and notification-gating engine.     *)
(*                                                                         *)
(*   NotificationService  (src/src/services/notificationService.ts)        *)
(*   CCUsageService       (src/unnamed/part_001, services/ccusageService)  *)
(*   ClaudeMeterApp       (src/unnamed/part_000, the main process)         *)
(*                                                                         *)
(* Time is Date.now() in milliseconds.  Percentages are kept in tenths of  *)
(* a percent (695 is 69.5 %), so that Math.round and the >= 70 / >= 90     *)
(* comparisons of the code act on values between the integers.  Costs are  *)
(* kept in cents.                                                          *)
(***************************************************************************)
EXTENDS Integers, Sequences, FiniteSets, TLC

VARIABLES
    now,                    \* Date.now()
    ticks,                  \* number of clock advances so far (bounds the run)
    \* NotificationService fields
    lastNotificationTime,
    lastWarningLevel,
    lastNotificationData,
    notificationInProgress,
    lockTimers,             \* due times of the pending setTimeout callbacks
    notifierCalls,          \* the alerts checkAndNotify handed to sendNotification
    \* observation of the operations on the NotificationService
    last,                   \* the most recent checkAndNotify call
    summary,                \* the most recent sendDailySummary call
    notifier,               \* what the platform's Notification does when it is asked
    track,                  \* the calls since start, while they follow Scenario
    \* CCUsageService fields
    cachedStats,
    lastUpdate,
    menuBarCostSource,
    sessionBlocks,
    calls,                  \* the getUsageStats / getMenuBarData invocations under way
    watch,                  \* observation of the calls made on the CCUsageService
    \* ClaudeOAuthService fields
    cachedUsage,
    lastFetch,
    credential,             \* what the Keychain holds for "Claude Code-credentials"
    usageCalls,             \* the getUsageData invocations under way
    oauthWatch,             \* observation of the calls made on the ClaudeOAuthService
    \* SettingsService: the settings file, and the most recent operation on it
    settingsFile,
    settingsCall,
    objects,                \* the objects of the SettingsService and of its callers
    \* the daily ledger on disk, which loadDailyUsageData reads
    ledger,
    \* the most recent call of a formatting function, with its argument
    probe

gateVars == <<lastNotificationTime, lastWarningLevel, lastNotificationData,
              notificationInProgress>>

\* everything the NotificationService owns, and what is observed of it
gateState == <<lastNotificationTime, lastWarningLevel, lastNotificationData,
               notificationInProgress, lockTimers, notifierCalls, last, summary, track,
               notifier>>

\* everything the CCUsageService owns, and what is observed of it
usageState == <<cachedStats, lastUpdate, menuBarCostSource, sessionBlocks, calls, watch>>

\* everything the ClaudeOAuthService owns, its Keychain, and what is observed of it
oauthState == <<cachedUsage, lastFetch, credential, usageCalls, oauthWatch>>

\* the settings file of the SettingsService, and what is observed of it
settingsState == <<settingsFile, settingsCall, objects>>

vars == <<now, ticks, gateState, usageState, oauthState, settingsState, ledger, probe>>

----------------------------------------------------------------------------
(* Bounds of the model *)

Epoch == 1000000            \* Date.now() when the process starts
MaxTicks == 4               \* clock advances in one run
MaxUtilization == 1000      \* the largest utilization a response carries in SpecMenuBar
MaxElapsed == 4500          \* how far past Epoch the clock runs in SpecUsage
MaxOAuthElapsed == 30000    \* and how far in SpecOAuth

GateDeltas == {299000}          \* the clock advances by one of these in SpecGate,
CacheDeltas == {1500}           \* by one of these in SpecUsage,
OAuthDeltas == {15000}          \* and by one of these in SpecOAuth
Utilizations == {0, 695, 700, 895, 900, 1000}
Sources == {"auto", "manual"}
NotifierBehaviours == {"supported", "unsupported", "isSupportedThrows", "showThrows"}

----------------------------------------------------------------------------
(* Program constants *)

NOTIFICATION_COOLDOWN == 300000
LOCK_RELEASE_DELAY == 1000
CACHE_DURATION == 3000
OAUTH_CACHE_DURATION == 30000   \* CACHE_DURATION of the ClaudeOAuthService
MS_PER_HOUR == 3600000
MS_PER_DAY == 86400000

----------------------------------------------------------------------------
(* CCUsageService: the derivation of the menu bar data *)

NoOAuth == [undefined |-> TRUE]     \* UsageStats.oauthUtilization left out
NullUsage == [null |-> TRUE]        \* getUsageData() returning null

\* new Date().toISOString().split('T')[0]: the UTC calendar day of t
DateOf(t) == t \div MS_PER_DAY

getEmptyDay(t) ==
    [date |-> DateOf(t), totalTokens |-> 0, totalCost |-> 0, models |-> <<>>]

getEmptyStats(t) ==
    [today |-> getEmptyDay(t), thisWeek |-> <<>>, oauthUtilization |-> NoOAuth]

\* the OAuthUtilization built from what getUsageData() resolved to
formatOAuthData(data) ==
    IF data = NullUsage
    THEN [fiveHour |-> [utilization |-> 0], sevenDay |-> [utilization |-> 0],
          isAvailable |-> FALSE]
    ELSE [fiveHour |-> [utilization |-> data.five_hour.utilization],
          sevenDay |-> [utilization |-> data.seven_day.utilization],
          isAvailable |-> TRUE]

\* getStatus reading the thresholds the settings file holds
getStatus_FromSettings(percentageUsed) ==
    LET stored == settingsFile.kind = "object"
                  /\ "notificationThresholds" \in DOMAIN settingsFile.value
                  /\ settingsFile.value.notificationThresholds # [null |-> TRUE]
        warning == IF stored THEN settingsFile.value.notificationThresholds.warning
                   ELSE 70
        critical == IF stored THEN settingsFile.value.notificationThresholds.critical
                    ELSE 90
    IN  IF percentageUsed >= critical * 10 THEN "critical"
        ELSE IF percentageUsed >= warning * 10 THEN "warning"
        ELSE "safe"

getStatus_SwappedThresholds(percentageUsed) ==
    IF percentageUsed >= 70 * 10 THEN "critical"
    ELSE IF percentageUsed >= 90 * 10 THEN "warning"
    ELSE "safe"

getStatus(percentageUsed) ==
    IF percentageUsed >= 90 * 10 THEN "critical"
    ELSE IF percentageUsed >= 70 * 10 THEN "warning"
    ELSE "safe"

percentageOf_SevenDay(stats) ==
    IF stats.oauthUtilization # NoOAuth /\ stats.oauthUtilization.isAvailable
    THEN stats.oauthUtilization.sevenDay.utilization
    ELSE 0

\* stats.oauthUtilization?.isAvailable ? stats.oauthUtilization.fiveHour.utilization : 0
percentageOf(stats) ==
    IF stats.oauthUtilization # NoOAuth /\ stats.oauthUtilization.isAvailable
    THEN stats.oauthUtilization.fiveHour.utilization
    ELSE 0

SumTokens(r) ==
    r.inputTokens + r.outputTokens + r.cacheCreationTokens + r.cacheReadTokens

modelsOf_KeepsSynthetic(modelBreakdowns) ==
    LET names == {modelBreakdowns[i].modelName : i \in 1..Len(modelBreakdowns)}
        lastOf(n) == CHOOSE i \in 1..Len(modelBreakdowns) :
                        /\ modelBreakdowns[i].modelName = n
                        /\ \A j \in 1..Len(modelBreakdowns) :
                               modelBreakdowns[j].modelName = n => j <= i
    IN  [n \in names |-> [tokens |-> SumTokens(modelBreakdowns[lastOf(n)]),
                          cost |-> modelBreakdowns[lastOf(n)].cost]]

\* the reduce of lines 153-165: a later breakdown of a model replaces an earlier one
modelsOf(modelBreakdowns) ==
    LET keep == {i \in 1..Len(modelBreakdowns) :
                    modelBreakdowns[i].modelName # "<synthetic>"}
        names == {modelBreakdowns[i].modelName : i \in keep}
        lastOf(n) == CHOOSE i \in keep :
                        /\ modelBreakdowns[i].modelName = n
                        /\ \A j \in keep : modelBreakdowns[j].modelName = n => j <= i
    IN  [n \in names |-> [tokens |-> SumTokens(modelBreakdowns[lastOf(n)]),
                          cost |-> modelBreakdowns[lastOf(n)].cost]]

processDailyData(data) ==
    [i \in 1..Len(data) |->
        [date |-> data[i].date,
         totalTokens |-> SumTokens(data[i]),
         totalCost |-> data[i].totalCost,
         models |-> modelsOf(data[i].modelBreakdowns)]]

todayOf_LatestEntry(processedDaily, t) ==
    IF processedDaily = <<>> THEN getEmptyDay(t)
    ELSE processedDaily[Len(processedDaily)]

\* processedDaily.find((d) => d.date === todayStr) || this.getEmptyDay()
todayOf(processedDaily, t) ==
    LET hits == {i \in 1..Len(processedDaily) : processedDaily[i].date = DateOf(t)}
    IN  IF hits = {} THEN getEmptyDay(t)
        ELSE processedDaily[CHOOSE i \in hits : \A j \in hits : i <= j]

InLastWeek_SinceMidnight(d, t) == d.date >= DateOf(t) - 7

\* new Date(d.date) >= weekAgo, weekAgo being seven days before t
InLastWeek(d, t) == d.date * MS_PER_DAY >= t - 7 * MS_PER_DAY

thisWeekOf(processedDaily, t) == SelectSeq(processedDaily, LAMBDA d : InLastWeek(d, t))

\* lines 96-113: the UsageStats built from the settled fetches
statsOf(dailyData, oauthData, t) ==
    LET processedDaily == processDailyData(dailyData)
    IN  [today |-> todayOf(processedDaily, t),
         thisWeek |-> thisWeekOf(processedDaily, t),
         oauthUtilization |->
             IF oauthData # NullUsage THEN formatOAuthData(oauthData) ELSE NoOAuth]

RECURSIVE costOfBlocks(_, _)
costOfBlocks(blocks, windowStart) ==
    IF blocks = <<>> THEN 0
    ELSE LET block == Head(blocks)
         IN  (IF ~block.isGap /\ block.startTime >= windowStart
              THEN block.costUSD ELSE 0)
             + costOfBlocks(Tail(blocks), windowStart)

getSessionWindowCost_AllBlocks(blocks, t) == costOfBlocks(blocks, 0)

getSessionWindowCost(blocks, t) == costOfBlocks(blocks, t - 5 * MS_PER_HOUR)

\* lines 128-144: the MenuBarData derived from stats
menuBarData(stats, costSource, blocks, t) ==
    LET percentageUsed == percentageOf(stats)
    IN  [percentageUsed |-> percentageUsed,
         cost |-> IF costSource = "sessionWindow"
                  THEN getSessionWindowCost(blocks, t)
                  ELSE stats.today.totalCost,
         status |-> getStatus(percentageUsed),
         oauthUtilization |-> stats.oauthUtilization]

----------------------------------------------------------------------------
(* NotificationService *)

\* Math.round of a value kept in tenths
Round(x) == (x + 5) \div 10

\* `${data.status}-${Math.round(data.percentageUsed)}`
dataIdentifier(data) == <<data.status, Round(data.percentageUsed)>>

NoIdentifier == <<>>        \* the empty string lastNotificationData starts with

IsDuplicate(id) == lastNotificationData = id \/ notificationInProgress

InCooldown_Never(timeSinceLastNotification) == FALSE

InCooldown(timeSinceLastNotification) ==
    timeSinceLastNotification < NOTIFICATION_COOLDOWN

shouldNotify_LevelOnly(status, lastLevel) == status # "safe"

shouldNotify(status, lastLevel) ==
    \/ status = "critical" /\ lastLevel # "critical"
    \/ status = "warning" /\ lastLevel = "safe"

titleOf(status) ==
    IF status = "critical" THEN "Claude Meter: Usage Critical"
    ELSE "Claude Meter: Usage Warning"

SummaryTitle == "Claude Meter: Daily Summary"

AlertTitles == {titleOf("critical"), titleOf("warning")}

\* sendNotification(title, body): what becomes of the notification, and whether
\* an exception leaves the function.  Everything sits inside the try of line 66.
sendNotification(title, behaviour) ==
    LET attempt == IF behaviour = "isSupportedThrows" THEN "throws"
                   ELSE IF behaviour = "unsupported" THEN "skipped"
                   ELSE IF behaviour = "showThrows" THEN "throws"
                   ELSE "shown"
    IN  IF attempt = "throws" THEN "caught" ELSE attempt

\* what the fields are after a call that fires (lines 52-61)
\* a fire that records the alert only when the Notifier has shown it
recordFire_OnlyIfDelivered(data, id) ==
    /\ notificationInProgress' = TRUE
    /\ notifierCalls' = Append(notifierCalls, [title |-> titleOf(data.status), at |-> now])
    /\ IF sendNotification(titleOf(data.status), notifier) = "shown"
       THEN /\ lastNotificationTime' = now
            /\ lastWarningLevel' = data.status
            /\ lastNotificationData' = id
       ELSE UNCHANGED <<lastNotificationTime, lastWarningLevel, lastNotificationData>>
    /\ lockTimers' = lockTimers \cup {now + LOCK_RELEASE_DELAY}

recordFire_KeepLevel(data, id) ==
    /\ notificationInProgress' = TRUE
    /\ notifierCalls' = Append(notifierCalls, [title |-> titleOf(data.status), at |-> now])
    /\ lastNotificationTime' = now
    /\ lastWarningLevel' = lastWarningLevel
    /\ lastNotificationData' = lastNotificationData
    /\ lockTimers' = lockTimers \cup {now + LOCK_RELEASE_DELAY}

recordFire(data, id) ==
    /\ notificationInProgress' = TRUE
    /\ notifierCalls' = Append(notifierCalls, [title |-> titleOf(data.status), at |-> now])
    /\ lastNotificationTime' = now
    /\ lastWarningLevel' = data.status
    /\ lastNotificationData' = id
    /\ lockTimers' = lockTimers \cup {now + LOCK_RELEASE_DELAY}

\* the time of the latest alert sent so far, 0 when there is none
LastAlertAt ==
    IF notifierCalls = <<>> THEN 0 ELSE notifierCalls[Len(notifierCalls)].at

CriticalAlertSent ==
    \E i \in 1..Len(notifierCalls) : notifierCalls[i].title = titleOf("critical")

Scenario == <<"safe", "warning", "critical", "critical", "warning", "safe">>

\* the observation variables after a checkAndNotify call
Observe(data, id, fired, threw) ==
    /\ last' = [called |-> TRUE, status |-> data.status,
                percentageUsed |-> data.percentageUsed, fired |-> fired,
                threw |-> threw, at |-> now, pre |-> gateVars, post |-> gateVars',
                delivery |-> IF fired THEN sendNotification(titleOf(data.status), notifier)
                             ELSE "none",
                sends |-> Len(notifierCalls') - Len(notifierCalls),
                cooled |-> now - LastAlertAt >= NOTIFICATION_COOLDOWN,
                repeats |-> last.called /\ dataIdentifier(last) = id,
                afterFired |-> last.called /\ last.fired,
                afterSafeAfterCritical |->
                    last.called /\ last.status = "safe" /\ last.afterCritical,
                afterCritical |-> CriticalAlertSent]
    /\ track' =
         IF /\ track.on
            /\ Len(track.calls) < Len(Scenario)
            /\ data.status = Scenario[Len(track.calls) + 1]
            /\ \A i \in 1..Len(track.calls) : track.calls[i].id # id
            /\ now - LastAlertAt >= NOTIFICATION_COOLDOWN
         THEN [on |-> TRUE, calls |-> Append(track.calls, [id |-> id, fired |-> fired])]
         ELSE [on |-> FALSE, calls |-> <<>>]

\* as checkAndNotify, with the level recorded on every call, before the early returns
checkAndNotify_RecordsLevelFirst(data, source) ==
    LET timeSinceLastNotification == now - lastNotificationTime
        id == dataIdentifier(data)
        fire == /\ ~IsDuplicate(id)
                /\ ~InCooldown(timeSinceLastNotification)
                /\ shouldNotify(data.status, lastWarningLevel)
    IN  /\ IF fire
           THEN recordFire(data, id)
           ELSE /\ lastWarningLevel' = data.status
                /\ UNCHANGED <<lastNotificationTime, lastNotificationData,
                               notificationInProgress, lockTimers, notifierCalls>>
        /\ Observe(data, id, fire, FALSE)
        /\ UNCHANGED <<now, ticks, settingsState, ledger, probe, summary, notifier,
                       usageState, oauthState>>

checkAndNotify(data, source) ==
    LET timeSinceLastNotification == now - lastNotificationTime
        id == dataIdentifier(data)
        fire == /\ ~IsDuplicate(id)
                /\ ~InCooldown(timeSinceLastNotification)
                /\ shouldNotify(data.status, lastWarningLevel)
        threw == \E behaviour \in NotifierBehaviours :
                     sendNotification(titleOf(data.status), behaviour) = "throws"
    IN  /\ IF fire
           THEN recordFire(data, id)
           ELSE UNCHANGED <<gateVars, lockTimers, notifierCalls>>
        /\ Observe(data, id, fire, fire /\ threw)
        /\ UNCHANGED <<now, ticks, settingsState, ledger, probe, summary, notifier,
                       usageState, oauthState>>

ReleaseLock_KeepsLock ==
    \E due \in lockTimers :
        /\ now >= due
        /\ lockTimers' = lockTimers \ {due}
        /\ UNCHANGED <<now, ticks, settingsState, ledger, probe, gateVars, notifierCalls,
                       last, summary, track, notifier, usageState, oauthState>>

\* the setTimeout callback of line 59
ReleaseLock ==
    \E due \in lockTimers :
        /\ now >= due
        /\ notificationInProgress' = FALSE
        /\ lockTimers' = lockTimers \ {due}
        /\ UNCHANGED <<now, ticks, settingsState, ledger, probe, lastNotificationTime, lastWarningLevel,
                       lastNotificationData, notifierCalls, last, summary, track, notifier,
                       usageState, oauthState>>

\* what is observed of a sendDailySummary call: what the Notifier did, whether
\* the call came while the gate was locked or inside the cooldown, and whether it
\* left the four fields of the gate as they were
ObserveSummary(behaviour, threw, sent) ==
    [called |-> TRUE, behaviour |-> behaviour, threw |-> threw, sent |-> sent,
     locked |-> notificationInProgress,
     cooling |-> lastNotificationTime > 0
                 /\ now - lastNotificationTime < NOTIFICATION_COOLDOWN,
     kept |-> gateVars' = gateVars]

sendDailySummary_Gated(tokensUsed, cost, behaviour) ==
    /\ UNCHANGED <<lastNotificationTime, lastNotificationData, notificationInProgress>>
    /\ lastWarningLevel' = "safe"
    /\ summary' =
         IF notificationInProgress \/ behaviour = "unsupported"
         THEN ObserveSummary(behaviour, FALSE, "nothing")
         ELSE IF behaviour = "isSupportedThrows"
         THEN ObserveSummary(behaviour, TRUE, "nothing")
         ELSE ObserveSummary(behaviour, FALSE, sendNotification(SummaryTitle, behaviour))
    /\ UNCHANGED <<now, ticks, settingsState, ledger, probe, lockTimers, notifierCalls,
                   last, track, notifier, usageState, oauthState>>

\* lines 80-87
sendDailySummary(tokensUsed, cost, behaviour) ==
    /\ UNCHANGED gateVars
    /\ summary' =
         IF behaviour = "isSupportedThrows"
         THEN \* Notification.isSupported() of line 81 is outside any try
              ObserveSummary(behaviour, TRUE, "nothing")
         ELSE IF behaviour = "unsupported"
         THEN ObserveSummary(behaviour, FALSE, "nothing")
         ELSE LET sent == sendNotification(SummaryTitle, behaviour)
              IN  ObserveSummary(behaviour, sent = "throws", sent)
    /\ UNCHANGED <<now, ticks, settingsState, ledger, probe, lockTimers, notifierCalls,
                   last, track, notifier, usageState, oauthState>>

\* time passes up to the due time of the earliest pending timer: the delay of
\* line 61 elapses, however many clock advances the run has had
timerComesDue ==
    /\ lockTimers # {}
    /\ \A due \in lockTimers : due > now
    /\ now' = CHOOSE due \in lockTimers : \A o \in lockTimers : due <= o
    /\ UNCHANGED <<ticks, gateState, usageState, oauthState, settingsState, ledger, probe>>

\* time passes; a pending timer callback runs at its due time before time passes on
Tick(d) ==
    LET next == IF \E due \in lockTimers : due < now + d
                THEN CHOOSE due \in lockTimers : \A o \in lockTimers : due <= o
                ELSE now + d
    IN  /\ ticks < MaxTicks
        /\ next > now
        /\ now' = next
        /\ ticks' = ticks + 1
        /\ UNCHANGED <<gateState, usageState, oauthState, settingsState, ledger, probe>>

----------------------------------------------------------------------------
(* CCUsageService: the cache and the fetches *)

NoStats == [null |-> TRUE]          \* cachedStats = null
Undefined == "undefined"            \* a field a Partial<UserConfiguration> leaves out
Failed == [ok |-> FALSE]            \* a ledger read that rejects
Loaded(value) == [ok |-> TRUE, value |-> value]

\* the invocations that can be under way at once: the one of the polling timer
\* (startUsagePolling) and one of an IPC handler (setupIPC)
CallIds == {"poll", "ipc"}

Idle == [pc |-> "idle"]

\* what is observed of a call when it is made: fresh, it comes less than
\* CACHE_DURATION after the latest call that fetched with success was made, with
\* no updateConfiguration since that call was made; afterConfig, it is the first
\* call after an updateConfiguration; stale, an updateConfiguration came while it
\* was fetching
ObserveCall(hit) ==
    [hit |-> hit,
     fresh |-> watch.made >= 0 /\ now - watch.made < CACHE_DURATION,
     afterConfig |-> watch.pending,
     stale |-> FALSE, failed |-> FALSE, oauthFetched |-> FALSE]

\* the result of a getUsageStats invocation reaches its caller
Resolve(c, forMenuBar, outcome, obs) ==
    calls' = [calls EXCEPT ![c] = [pc |-> "resolved", forMenuBar |-> forMenuBar,
                                    threw |-> outcome.threw, stats |-> outcome.stats,
                                    obs |-> obs]]

Returns(stats) == [threw |-> FALSE, stats |-> stats]

caught_Rethrows(t) == [threw |-> TRUE, stats |-> getEmptyStats(t)]

\* the catch block of lines 119-122
caught(t) == [threw |-> FALSE, stats |-> getEmptyStats(t)]

\* day.modelBreakdowns.filter(...) of line 153 on an entry without modelBreakdowns
MergeFails(dailyData) ==
    \E i \in 1..Len(dailyData) : "modelBreakdowns" \notin DOMAIN dailyData[i]

\* getUsageStats up to its first await (lines 73-91); forMenuBar tells the caller,
\* getMenuBarData (line 126), from the get-usage-stats and refresh-data handlers
getUsageStats(c, forMenuBar) ==
    /\ calls[c] = Idle
    /\ c = "poll" => forMenuBar
    /\ IF cachedStats # NoStats /\ now - lastUpdate < CACHE_DURATION
       THEN Resolve(c, forMenuBar, Returns(cachedStats), ObserveCall(TRUE))
       ELSE calls' = [calls EXCEPT ![c] = [pc |-> "fetching", forMenuBar |-> forMenuBar,
                                           started |-> now, obs |-> ObserveCall(FALSE)]]
    /\ watch' = [watch EXCEPT !.pending = FALSE]
    /\ UNCHANGED <<now, ticks, settingsState, ledger, probe, gateState, oauthState, cachedStats, lastUpdate, menuBarCostSource,
                   sessionBlocks>>

\* the three fetches of Promise.all have settled (lines 82-122)
fetchesSettled(c, blocks, dailyData, oauthData) ==
    /\ calls[c].pc = "fetching"
    /\ LET rejected == blocks = Failed \/ dailyData = Failed \/ oauthData = Failed
           failed == rejected \/ MergeFails(dailyData.value)
           obs == [calls[c].obs EXCEPT !.failed = failed,
                                       !.oauthFetched = oauthData \notin {Failed, NullUsage}]
       IN  IF failed
           THEN /\ Resolve(c, calls[c].forMenuBar, caught(now), obs)
                /\ IF rejected
                   THEN UNCHANGED sessionBlocks
                   ELSE sessionBlocks' = blocks.value
                /\ UNCHANGED <<cachedStats, lastUpdate, watch>>
           ELSE LET stats == statsOf(dailyData.value, oauthData, now)
                IN  /\ sessionBlocks' = blocks.value
                    /\ cachedStats' = stats
                    /\ lastUpdate' = calls[c].started
                    /\ Resolve(c, calls[c].forMenuBar, Returns(stats), obs)
                    /\ watch' = [watch EXCEPT !.made =
                                    IF ~obs.stale /\ calls[c].started > @
                                    THEN calls[c].started ELSE @]
    /\ UNCHANGED <<now, ticks, settingsState, ledger, probe, gateState, oauthState, menuBarCostSource>>

\* the caller goes on with the stats: getMenuBarData derives the menu bar data
\* (lines 128-144), the handlers hand the stats on; an exception goes to the caller
callReturns(c) ==
    /\ calls[c].pc = "resolved"
    /\ calls' = [calls EXCEPT ![c] =
         IF calls[c].threw
         THEN [pc |-> "threw", forMenuBar |-> calls[c].forMenuBar]
         ELSE IF calls[c].forMenuBar
         THEN [pc |-> "returned", forMenuBar |-> TRUE, stats |-> calls[c].stats,
               failed |-> calls[c].obs.failed,
               data |-> menuBarData(calls[c].stats, menuBarCostSource, sessionBlocks, now)]
         ELSE [pc |-> "returned", forMenuBar |-> FALSE, stats |-> calls[c].stats,
               failed |-> calls[c].obs.failed]]
    /\ UNCHANGED <<now, ticks, settingsState, ledger, probe, gateState, oauthState, cachedStats, lastUpdate, menuBarCostSource,
                   sessionBlocks, watch>>

\* the caller is done with what it was returned
callerDone(c) ==
    /\ calls[c].pc \in {"returned", "threw"}
    /\ calls' = [calls EXCEPT ![c] = Idle]
    /\ UNCHANGED <<now, ticks, settingsState, ledger, probe, gateState, oauthState, cachedStats, lastUpdate, menuBarCostSource,
                   sessionBlocks, watch>>

configure_ResetsSource(config) ==
    /\ menuBarCostSource' =
         IF config.menuBarCostSource # Undefined
         THEN config.menuBarCostSource ELSE "today"
    /\ cachedStats' = NoStats
    /\ watch' = [made |-> -1, pending |-> TRUE]
    /\ calls' = [c \in CallIds |->
                    IF calls[c].pc = "fetching"
                    THEN [calls[c] EXCEPT !.obs.stale = TRUE] ELSE calls[c]]
    /\ UNCHANGED <<lastUpdate, sessionBlocks>>

\* lines 64-70: what updateConfiguration does to the service
configure(config) ==
    /\ menuBarCostSource' =
         IF config.menuBarCostSource # Undefined
         THEN config.menuBarCostSource ELSE menuBarCostSource
    /\ cachedStats' = NoStats
    /\ watch' = [made |-> -1, pending |-> TRUE]
    /\ calls' = [c \in CallIds |->
                    IF calls[c].pc = "fetching"
                    THEN [calls[c] EXCEPT !.obs.stale = TRUE] ELSE calls[c]]
    /\ UNCHANGED <<lastUpdate, sessionBlocks>>

updateConfiguration(config) ==
    /\ configure(config)
    /\ UNCHANGED <<now, ticks, settingsState, ledger, probe, gateState, oauthState>>

----------------------------------------------------------------------------
(* What the sources can deliver *)

OAuthResponse(fiveHour, sevenDay) ==
    [five_hour |-> [utilization |-> fiveHour], seven_day |-> [utilization |-> sevenDay]]

OAuthResponses == {OAuthResponse(u, 250) : u \in Utilizations}

\* what getUsageData() resolves to in SpecUsage
FetchedUsage == {NullUsage, OAuthResponse(895, 250)}

Breakdown(name, tokens, cost) ==
    [modelName |-> name, inputTokens |-> tokens, outputTokens |-> tokens,
     cacheCreationTokens |-> 0, cacheReadTokens |-> tokens, cost |-> cost]

DayEntry(date, tokens, cost) ==
    [date |-> date, inputTokens |-> tokens, outputTokens |-> 2 * tokens,
     cacheCreationTokens |-> 3 * tokens, cacheReadTokens |-> 4 * tokens,
     totalCost |-> cost,
     modelBreakdowns |-> <<Breakdown("claude-sonnet-4", tokens, cost),
                           Breakdown("<synthetic>", 1, 0)>>]

\* the daily ledger: a day before the last week, a day in it and the day the
\* process starts
DailyLedgers ==
    {<<DayEntry(DateOf(Epoch) - 8, 50, 40), DayEntry(DateOf(Epoch) - 3, 70, 60),
       DayEntry(DateOf(Epoch), 100, 125)>>}

\* a daily ledger with an entry that lacks its modelBreakdowns
MalformedLedgers == {<<[date |-> DateOf(Epoch), inputTokens |-> 1, outputTokens |-> 1,
                        cacheCreationTokens |-> 0, cacheReadTokens |-> 0, totalCost |-> 1]>>}

Block(startTime, isGap, costUSD) ==
    [id |-> startTime, startTime |-> startTime, endTime |-> startTime + 5 * MS_PER_HOUR,
     isActive |-> FALSE, isGap |-> isGap, costUSD |-> costUSD]

BlockLedgers ==
    {<<Block(Epoch - 6 * MS_PER_HOUR, FALSE, 500),
       Block(Epoch - 2 * MS_PER_HOUR, FALSE, 300),
       Block(Epoch - MS_PER_HOUR, TRUE, 200)>>}

\* session blocks with one that starts exactly five hours before the process does
BoundaryLedgers ==
    {<<Block(Epoch - 5 * MS_PER_HOUR - 1, FALSE, 700),
       Block(Epoch - 5 * MS_PER_HOUR, FALSE, 100),
       Block(Epoch - 1, TRUE, 50), Block(Epoch, FALSE, 20)>>}

Configurations == [menuBarCostSource : {"today", "sessionWindow", Undefined}]

----------------------------------------------------------------------------
(* ClaudeOAuthService *)

NoToken == [null |-> TRUE]          \* getAccessToken() returning null
AccessToken == [accessToken |-> "token"]

\* the Keychain holds a credential with an access token, or none that can be used
Keychains == {"token", "none"}

\* what the Keychain read of line 51 comes to
ReadsOf(keychain) ==
    IF keychain = "token" THEN {"token"} ELSE {"noEntry", "noAccessToken", "notJson"}

getAccessToken_AlwaysToken(stdout) == [threw |-> FALSE, token |-> AccessToken]

getAccessToken_Rethrows(stdout) ==
    IF stdout = "token" THEN [threw |-> FALSE, token |-> AccessToken]
    ELSE IF stdout = "noAccessToken" THEN [threw |-> FALSE, token |-> NoToken]
    ELSE [threw |-> TRUE, token |-> NoToken]

\* lines 49-67: security fails on a missing entry and JSON.parse on a bad one; both
\* go to the catch of line 63
getAccessToken(stdout) ==
    IF stdout = "token" THEN [threw |-> FALSE, token |-> AccessToken]
    ELSE [threw |-> FALSE, token |-> NoToken]

\* what the request of line 86 can come to
Answers ==
    {[kind |-> "networkError"], [kind |-> "status", ok |-> FALSE],
     [kind |-> "notJson", ok |-> TRUE],
     [kind |-> "body", ok |-> TRUE, data |-> [seven_day |-> [utilization |-> 250]]],
     [kind |-> "body", ok |-> TRUE, data |-> [five_hour |-> [utilization |-> 895]]],
     [kind |-> "body", ok |-> TRUE, data |-> OAuthResponse(895, 250)],
     [kind |-> "body", ok |-> TRUE, data |-> OAuthResponse(900, 250)]}

\* lines 96-108: the data of an answer, or null
dataOf(answer) ==
    IF answer.kind = "networkError" THEN NullUsage          \* fetch rejects: line 113
    ELSE IF ~answer.ok THEN NullUsage                        \* line 98
    ELSE IF answer.kind = "notJson" THEN NullUsage           \* json() rejects: line 113
    ELSE IF "five_hour" \notin DOMAIN answer.data \/ "seven_day" \notin DOMAIN answer.data
    THEN NullUsage                                           \* line 106
    ELSE answer.data

\* what is observed of a getUsageData call when it is made: fresh, it comes less
\* than OAUTH_CACHE_DURATION after the latest call that fetched with success was
\* made, with no clearCache since that call was made
ObserveUsageCall(hit) ==
    [hit |-> hit,
     fresh |-> oauthWatch.made >= 0 /\ now - oauthWatch.made < OAUTH_CACHE_DURATION,
     credentialAtCall |-> credential = "token",
     credentialAtLookup |-> FALSE,
     failed |-> FALSE,              \* the Keychain read or the request failed
     cacheCleared |-> FALSE,        \* a clearCache came while the call was under way
     requestCleared |-> FALSE,      \* a clearCache came while its request was out
     afterFailure |-> \E o \in CallIds :      \* a call that failed has just returned
                         usageCalls[o].pc = "done" /\ usageCalls[o].obs.failed,
     fromClearedRequest |-> hit /\ oauthWatch.cachedBeforeClear]

\* the answers that carry both windows
ValidAnswers == {answer \in Answers : answer.kind = "body" /\ answer.ok
                                      /\ DOMAIN answer.data = {"five_hour", "seven_day"}}

Finish(c, threw, result, requests, obs) ==
    usageCalls' = [usageCalls EXCEPT ![c] =
                      [pc |-> "done", threw |-> threw, result |-> result,
                       requests |-> requests, obs |-> obs]]

\* getUsageData up to its first await (lines 73-80)
getUsageData(c) ==
    /\ usageCalls[c] = Idle
    /\ IF cachedUsage # NullUsage /\ now - lastFetch < OAUTH_CACHE_DURATION
       THEN Finish(c, FALSE, cachedUsage, 0, ObserveUsageCall(TRUE))
       ELSE usageCalls' = [usageCalls EXCEPT ![c] =
                [pc |-> "lookup", started |-> now, obs |-> ObserveUsageCall(FALSE)]]
    /\ UNCHANGED <<now, ticks, settingsState, ledger, probe, gateState, usageState, cachedUsage, lastFetch, credential,
                   oauthWatch>>

\* getAccessToken settles (line 80); with a token the request goes out (line 86)
tokenRead(c, stdout) ==
    /\ usageCalls[c].pc = "lookup"
    /\ stdout \in ReadsOf(credential)
    /\ LET read == getAccessToken(stdout)
           obs == [usageCalls[c].obs EXCEPT !.credentialAtLookup = credential = "token",
                                            !.failed = stdout # "token"]
       IN  IF read.threw
           THEN Finish(c, TRUE, NullUsage, 0, obs)
           ELSE IF read.token = NoToken
           THEN Finish(c, FALSE, NullUsage, 0, obs)
           ELSE usageCalls' = [usageCalls EXCEPT ![c] =
                    [pc |-> "request", started |-> usageCalls[c].started, requests |-> 1,
                     obs |-> obs]]
    /\ UNCHANGED <<now, ticks, settingsState, ledger, probe, gateState, usageState, cachedUsage, lastFetch, credential,
                   oauthWatch>>

answerArrives_StampsFailure(c, answer) ==
    /\ usageCalls[c].pc = "request"
    /\ LET data == dataOf(answer)
           obs == [usageCalls[c].obs EXCEPT !.failed = answer \notin ValidAnswers]
       IN  /\ Finish(c, FALSE, data, usageCalls[c].requests, obs)
           /\ lastFetch' = usageCalls[c].started
           /\ IF data = NullUsage
              THEN UNCHANGED <<cachedUsage, oauthWatch>>
              ELSE /\ cachedUsage' = data
                   /\ oauthWatch' =
                        [made |-> IF ~obs.cacheCleared /\ usageCalls[c].started > oauthWatch.made
                                  THEN usageCalls[c].started ELSE oauthWatch.made,
                         cachedBeforeClear |-> obs.requestCleared]
    /\ UNCHANGED <<now, ticks, settingsState, ledger, probe, gateState, usageState, credential>>

\* the request settles (lines 96-116)
answerArrives(c, answer) ==
    /\ usageCalls[c].pc = "request"
    /\ LET data == dataOf(answer)
           obs == [usageCalls[c].obs EXCEPT !.failed = answer \notin ValidAnswers]
       IN  /\ Finish(c, FALSE, data, usageCalls[c].requests, obs)
           /\ IF data = NullUsage
              THEN UNCHANGED <<cachedUsage, lastFetch, oauthWatch>>
              ELSE /\ cachedUsage' = data
                   /\ lastFetch' = usageCalls[c].started
                   /\ oauthWatch' =
                        [made |-> IF ~obs.cacheCleared /\ usageCalls[c].started > oauthWatch.made
                                  THEN usageCalls[c].started ELSE oauthWatch.made,
                         cachedBeforeClear |-> obs.requestCleared]
    /\ UNCHANGED <<now, ticks, settingsState, ledger, probe, gateState, usageState, credential>>

\* the caller is done with what it was returned
usageCallerDone(c) ==
    /\ usageCalls[c].pc = "done"
    /\ usageCalls' = [usageCalls EXCEPT ![c] = Idle]
    /\ UNCHANGED <<now, ticks, settingsState, ledger, probe, gateState, usageState, cachedUsage, lastFetch, credential,
                   oauthWatch>>

clearCache ==
    /\ cachedUsage' = NullUsage
    /\ lastFetch' = 0
    /\ oauthWatch' = [made |-> -1, cachedBeforeClear |-> FALSE]
    /\ usageCalls' = [c \in CallIds |->
         IF usageCalls[c].pc = "lookup"
         THEN [usageCalls[c] EXCEPT !.obs.cacheCleared = TRUE]
         ELSE IF usageCalls[c].pc = "request"
         THEN [usageCalls[c] EXCEPT !.obs.cacheCleared = TRUE, !.obs.requestCleared = TRUE]
         ELSE usageCalls[c]]
    /\ UNCHANGED <<now, ticks, settingsState, ledger, probe, gateState, usageState, credential>>

\* the user logs in to or out of Claude Code, or the Keychain entry is damaged
keychainChanges(keychain) ==
    /\ keychain # credential
    /\ credential' = keychain
    /\ UNCHANGED <<now, ticks, settingsState, ledger, probe, gateState, usageState, cachedUsage, lastFetch, usageCalls,
                   oauthWatch>>

----------------------------------------------------------------------------
(* ClaudeOAuthService: the text of the time left until a limit resets *)

MS_PER_MINUTE == 60000

\* lines 148-170; resetsAt and t are times in milliseconds
formatTimeUntilReset_DaysFromOneDay(resetsAt, t) ==
    LET diff == resetsAt - t
        hours == diff \div MS_PER_HOUR
        minutes == (diff % MS_PER_HOUR) \div MS_PER_MINUTE
    IN  IF diff <= 0 THEN "Resetting..."
        ELSE IF hours >= 24
        THEN ToString(hours \div 24) \o "d " \o ToString(hours % 24) \o "h"
        ELSE IF hours > 0
        THEN ToString(hours) \o "h " \o ToString(minutes) \o "m"
        ELSE ToString(minutes) \o "m"

formatTimeUntilReset(resetsAt, t) ==
    LET diff == resetsAt - t
        hours == diff \div MS_PER_HOUR
        minutes == (diff % MS_PER_HOUR) \div MS_PER_MINUTE
    IN  IF diff <= 0 THEN "Resetting..."
        ELSE IF hours > 24
        THEN ToString(hours \div 24) \o "d " \o ToString(hours % 24) \o "h"
        ELSE IF hours > 0
        THEN ToString(hours) \o "h " \o ToString(minutes) \o "m"
        ELSE ToString(minutes) \o "m"

NoProbe == [fn |-> "none"]

\* the renderer asks for the text of a reset time
formatCalled ==
    /\ probe.fn = "resetsAt"
    /\ probe' = [fn |-> "formatTimeUntilReset", resetsAt |-> probe.resetsAt,
                 text |-> formatTimeUntilReset(probe.resetsAt, now)]
    /\ UNCHANGED <<now, ticks, gateState, usageState, oauthState, settingsState, ledger>>

----------------------------------------------------------------------------
(* SettingsService *)

JsonNull == [null |-> TRUE]         \* a null in the settings file

\* lines 24-31: the object the constructor assigns to this.defaultSettings, and the
\* object its notificationThresholds field refers to
InitialObjects ==
    [defaultSettings |-> [menuBarDisplayMode |-> "both", menuBarCostSource |-> "today",
                          notificationThresholds |-> "thresholds"],
     thresholds |-> [warning |-> 70, critical |-> 90]]

\* the value of an AppSettings object: its fields, with the object its
\* notificationThresholds field refers to
ValueOf(object) ==
    [object EXCEPT !.notificationThresholds = objects[object.notificationThresholds]]

\* this.defaultSettings, as what reads it finds it
defaultSettings == ValueOf(objects.defaultSettings)

SettingsFields == DOMAIN InitialObjects.defaultSettings

\* { ...a, ...b }
Spread(a, b) ==
    [k \in DOMAIN a \cup DOMAIN b |-> IF k \in DOMAIN b THEN b[k] ELSE a[k]]

Only(k, value) == [j \in {k} |-> value]

\* rawSettings[k] is truthy: the field is there, and neither null nor the empty
\* string
Truthy(rawSettings, k) ==
    /\ k \in DOMAIN rawSettings
    /\ IF k = "notificationThresholds" THEN rawSettings[k] # JsonNull
       ELSE rawSettings[k] # ""

\* lines 54-72: the fields taken from the parsed file
storedSettings(rawSettings) ==
    LET mode == IF ~Truthy(rawSettings, "menuBarDisplayMode")
                    \/ rawSettings.menuBarDisplayMode = "alternate"
                THEN "both" ELSE rawSettings.menuBarDisplayMode
        source == IF Truthy(rawSettings, "menuBarCostSource")
                  THEN Only("menuBarCostSource", rawSettings.menuBarCostSource)
                  ELSE <<>>
        thresholds == IF Truthy(rawSettings, "notificationThresholds")
                      THEN Only("notificationThresholds",
                                rawSettings.notificationThresholds)
                      ELSE <<>>
    IN  Spread(Spread(Only("menuBarDisplayMode", mode), source), thresholds)

\* the settings file: missing, one that cannot be read, one whose text does not
\* parse, the text null, or the text of an object
NoFile == [kind |-> "missing"]
stringify(settings) == [kind |-> "object", value |-> settings]

loadSettings_Rethrows(file) ==
    IF file.kind = "missing" THEN [threw |-> FALSE, settings |-> defaultSettings]
    ELSE IF file.kind = "object"
    THEN [threw |-> FALSE,
          settings |-> Spread(defaultSettings, storedSettings(file.value))]
    ELSE [threw |-> TRUE, settings |-> defaultSettings]

loadSettings_KeepsAlternate(file) ==
    IF file.kind = "object"
    THEN [threw |-> FALSE, settings |-> Spread(defaultSettings, file.value)]
    ELSE [threw |-> FALSE, settings |-> defaultSettings]

\* lines 46-82: readFileSync, JSON.parse and the property reads on null all throw
\* inside the try, and the catch of line 77 falls through to the defaults
loadSettings(file) ==
    IF file.kind = "object"
    THEN [threw |-> FALSE,
          settings |-> Spread(defaultSettings, storedSettings(file.value))]
    ELSE [threw |-> FALSE, settings |-> defaultSettings]

saveSettings_WritesPartialOnly(file, settings, writeFails) ==
    IF writeFails THEN [threw |-> TRUE, file |-> file]
    ELSE [threw |-> FALSE, file |-> stringify(settings)]

saveSettings_Swallows(file, settings, writeFails) ==
    LET currentSettings == loadSettings(file).settings
    IN  IF writeFails THEN [threw |-> FALSE, file |-> file]
        ELSE [threw |-> FALSE, file |-> stringify(Spread(currentSettings, settings))]

\* lines 84-101: what the file is afterwards, and whether the promise rejects
saveSettings(file, settings, writeFails) ==
    LET currentSettings == loadSettings(file).settings
        updatedSettings == Spread(currentSettings, settings)
    IN  IF writeFails THEN [threw |-> TRUE, file |-> file]
        ELSE [threw |-> FALSE, file |-> stringify(updatedSettings)]

NoSettingsCall == [op |-> "none"]

\* the load-settings handler (part_000, lines 191-193)
loadSettingsHandler ==
    /\ settingsCall' = [op |-> "load", file |-> settingsFile,
                        threw |-> loadSettings(settingsFile).threw,
                        settings |-> loadSettings(settingsFile).settings]
    /\ UNCHANGED <<now, ticks, gateState, usageState, oauthState, settingsFile, objects,
                   ledger, probe>>

\* the save-settings handler (part_000, lines 195-209), up to the tray update it
\* awaits when the display mode is set, which is a getMenuBarData call of its own
saveSettingsHandler(settings, writeFails) ==
    LET saved == saveSettings(settingsFile, settings, writeFails)
        source == IF "menuBarCostSource" \in DOMAIN settings
                  THEN settings.menuBarCostSource ELSE Undefined
    IN  /\ settingsFile' = saved.file
        /\ settingsCall' = [op |-> "save", file |-> settingsFile, partial |-> settings,
                            current |-> loadSettings(settingsFile).settings,
                            writeFails |-> writeFails,
                            threw |-> saved.threw, success |-> ~saved.threw,
                            sourceBefore |-> menuBarCostSource,
                            cachedBefore |-> cachedStats # NoStats]
        /\ IF saved.threw THEN UNCHANGED usageState
           ELSE configure([menuBarCostSource |-> source])
        /\ UNCHANGED <<now, ticks, gateState, oauthState, objects, ledger, probe>>

\* lines 103-105: { ...this.defaultSettings } is a new object with the fields of
\* this.defaultSettings, its notificationThresholds the same object as theirs
getDefaultSettings ==
    [defaultSettings |-> objects.defaultSettings, thresholds |-> objects.thresholds,
     copy |-> objects.defaultSettings]

\* a caller takes the default settings
getDefaultSettingsCalled ==
    /\ objects' = getDefaultSettings
    /\ settingsCall' = [op |-> "getDefaultSettings", file |-> settingsFile,
                        threw |-> FALSE, settings |-> ValueOf(objects'.copy),
                        mutated |-> "copy" \in DOMAIN objects
                                    /\ ValueOf(objects.copy) # ValueOf(objects'.copy)]
    /\ UNCHANGED <<now, ticks, gateState, usageState, oauthState, settingsFile, ledger,
                   probe>>

\* the caller assigns to a field of the record it was returned
\* (defaults.menuBarDisplayMode = 'percentage')
callerSetsField(k, value) ==
    /\ "copy" \in DOMAIN objects
    /\ objects' = [objects EXCEPT !.copy[k] = value]
    /\ UNCHANGED <<now, ticks, gateState, usageState, oauthState, settingsFile, settingsCall,
                   ledger, probe>>

\* the caller assigns to a field of the record's notificationThresholds
\* (defaults.notificationThresholds.warning = 50)
callerSetsThreshold(k, value) ==
    /\ "copy" \in DOMAIN objects
    /\ objects' = [objects EXCEPT ![objects.copy.notificationThresholds][k] = value]
    /\ UNCHANGED <<now, ticks, gateState, usageState, oauthState, settingsFile, settingsCall,
                   ledger, probe>>

----------------------------------------------------------------------------
(* Initial state *)

InitialFields == <<0, "safe", NoIdentifier, FALSE>>

NoCall ==
    [called |-> FALSE, status |-> "safe", percentageUsed |-> 0, fired |-> FALSE,
     threw |-> FALSE, at |-> 0, pre |-> InitialFields, post |-> InitialFields,
     delivery |-> "none",
     sends |-> 0, cooled |-> FALSE, repeats |-> FALSE, afterFired |-> FALSE,
     afterSafeAfterCritical |-> FALSE, afterCritical |-> FALSE]

InitNotificationService ==
    /\ lastNotificationTime = 0
    /\ lastWarningLevel = "safe"
    /\ lastNotificationData = NoIdentifier
    /\ notificationInProgress = FALSE
    /\ lockTimers = {}
    /\ notifierCalls = <<>>
    /\ last = NoCall
    /\ summary = [called |-> FALSE, behaviour |-> "supported", threw |-> FALSE,
                  sent |-> "nothing", locked |-> FALSE, cooling |-> FALSE,
                  kept |-> TRUE]
    /\ track = [on |-> TRUE, calls |-> <<>>]
    /\ notifier = "supported"

NoWatch == [made |-> -1, pending |-> FALSE]

InitCCUsageService ==
    /\ cachedStats = NoStats
    /\ lastUpdate = 0
    /\ menuBarCostSource = "today"
    /\ sessionBlocks = <<>>
    /\ calls = [c \in CallIds |-> Idle]
    /\ watch = NoWatch

NoUsageWatch == [made |-> -1, cachedBeforeClear |-> FALSE]

InitClaudeOAuthService ==
    /\ cachedUsage = NullUsage
    /\ lastFetch = 0
    /\ credential = "token"
    /\ usageCalls = [c \in CallIds |-> Idle]
    /\ oauthWatch = NoUsageWatch

InitSettingsService ==
    /\ objects = InitialObjects
    /\ settingsFile = NoFile
    /\ settingsCall = NoSettingsCall

Init ==
    /\ now = Epoch
    /\ ticks = 0
    /\ InitNotificationService
    /\ InitCCUsageService
    /\ InitClaudeOAuthService
    /\ InitSettingsService
    /\ ledger = <<>>
    /\ probe = NoProbe

----------------------------------------------------------------------------
(* SpecGate: the notification gate, fed with the menu bar data of any usage    *)
(* statistics getUsageStats can return                                        *)

StatsInputs ==
    {statsOf(<<>>, oauthData, now) : oauthData \in OAuthResponses \cup {NullUsage}}

NextGate ==
    \/ \E stats \in StatsInputs, source \in Sources :
           checkAndNotify(menuBarData(stats, menuBarCostSource, sessionBlocks, now), source)
    \/ ReleaseLock
    \/ \E tokensUsed \in {1500}, cost \in {125}, behaviour \in NotifierBehaviours :
           sendDailySummary(tokensUsed, cost, behaviour)
    \/ \E d \in GateDeltas : Tick(d)

SpecGate == Init /\ [][NextGate]_vars

----------------------------------------------------------------------------
(* SpecUsage: the usage service under overlapping invocations *)

NextUsage ==
    \/ \E c \in CallIds, forMenuBar \in BOOLEAN : getUsageStats(c, forMenuBar)
    \/ \E c \in CallIds, blocks \in {Failed} \cup {Loaded(b) : b \in BlockLedgers},
          dailyData \in {Failed} \cup {Loaded(d) : d \in DailyLedgers \cup MalformedLedgers},
          oauthData \in FetchedUsage :
           fetchesSettled(c, blocks, dailyData, oauthData)
    \/ \E c \in CallIds : callReturns(c)
    \/ \E c \in CallIds : callerDone(c)
    \/ \E config \in Configurations : updateConfiguration(config)
    \/ \E d \in CacheDeltas : now + d <= Epoch + MaxElapsed /\ Tick(d)

SpecUsage == Init /\ [][NextUsage]_vars

----------------------------------------------------------------------------
(* SpecMenuBar: getMenuBarData served from the cache, the cache holding the   *)
(* statistics of a fetch that has just succeeded, for every utilization       *)

InitMenuBar ==
    /\ now = Epoch
    /\ ticks = 0
    /\ InitNotificationService
    /\ \E dailyData \in DailyLedgers, blocks \in BlockLedgers \cup BoundaryLedgers \cup {<<>>},
          oauthData \in {OAuthResponse(u, 250) : u \in 0..MaxUtilization} \cup {NullUsage} :
           /\ cachedStats = statsOf(dailyData, oauthData, Epoch)
           /\ sessionBlocks = blocks
    /\ lastUpdate = Epoch
    /\ menuBarCostSource \in {"today", "sessionWindow"}
    /\ calls = [c \in CallIds |-> Idle]
    /\ watch = [NoWatch EXCEPT !.made = Epoch]
    /\ InitClaudeOAuthService
    /\ InitSettingsService
    /\ ledger = <<>>
    /\ probe = NoProbe

NextMenuBar ==
    \/ getUsageStats("poll", TRUE)
    \/ callReturns("poll")
    \/ callerDone("poll")

SpecMenuBar == InitMenuBar /\ [][NextMenuBar]_vars

----------------------------------------------------------------------------
(* SpecOAuth: the rate-limit client under overlapping invocations *)

NextOAuth ==
    \/ \E c \in CallIds : getUsageData(c)
    \/ \E c \in CallIds, stdout \in {"token", "noEntry", "noAccessToken", "notJson"} :
           tokenRead(c, stdout)
    \/ \E c \in CallIds, answer \in Answers : answerArrives(c, answer)
    \/ \E c \in CallIds : usageCallerDone(c)
    \/ clearCache
    \/ \E keychain \in Keychains : keychainChanges(keychain)
    \/ \E d \in OAuthDeltas : now + d <= Epoch + MaxOAuthElapsed /\ Tick(d)

SpecOAuth == Init /\ [][NextOAuth]_vars

----------------------------------------------------------------------------
(* SpecLedger: getUsageStats on the daily ledger, around the end of a day *)

MaxLedgerTicks == 2         \* clock advances in one run of SpecLedger

LedgerDay(date, tokens, cost, modelBreakdowns) ==
    [date |-> date, inputTokens |-> tokens, outputTokens |-> 2 * tokens,
     cacheCreationTokens |-> 3 * tokens, cacheReadTokens |-> 4 * tokens,
     totalCost |-> cost, modelBreakdowns |-> modelBreakdowns]

\* the daily ledgers a read at time t can find: none of its days is after the day
\* of t; one is in date order and has a day for t, one is not and has none
LedgersAt(t) ==
    LET d == DateOf(t)
        sonnet == Breakdown("claude-sonnet-4", 60, 80)
        opus == Breakdown("claude-opus-4", 30, 20)
        synthetic == Breakdown("<synthetic>", 3, 45)
    IN  {<<>>,
         <<LedgerDay(d - 8, 5, 10, <<opus>>), LedgerDay(d - 7, 6, 20, <<sonnet>>),
           LedgerDay(d - 6, 7, 30, <<sonnet, opus>>),
           LedgerDay(d, 100, 125, <<sonnet, synthetic, opus,
                                    Breakdown("claude-sonnet-4", 7, 9)>>)>>,
         <<LedgerDay(d - 1, 8, 45, <<synthetic>>), LedgerDay(d - 6, 7, 30, <<opus>>),
           LedgerDay(d - 7, 6, 20, <<sonnet>>), LedgerDay(d - 3, 9, 40, <<>>)>>}

\* the first instant of the day after the one the process starts in
Midnight == (DateOf(Epoch) + 1) * MS_PER_DAY

InitLedger ==
    /\ now \in {Epoch} \cup {Midnight - d : d \in CacheDeltas}
    /\ ticks = 0
    /\ InitNotificationService
    /\ InitCCUsageService
    /\ InitClaudeOAuthService
    /\ InitSettingsService
    /\ ledger \in LedgersAt(now)
    /\ probe = NoProbe

NextLedger ==
    \/ getUsageStats("ipc", FALSE)
    \/ \E dailyData \in {Failed, Loaded(ledger)} :
           fetchesSettled("ipc", Loaded(<<>>), dailyData, NullUsage)
    \/ callReturns("ipc")
    \/ callerDone("ipc")
    \/ \E d \in CacheDeltas : ticks < MaxLedgerTicks /\ Tick(d)

SpecLedger == InitLedger /\ [][NextLedger]_vars

----------------------------------------------------------------------------
(* SpecFormat: formatTimeUntilReset on reset times before and after now *)

MaxMinutes == 3100          \* the furthest reset time, in minutes from now

\* reset times on a whole minute from now, and a millisecond and half a minute
\* after one
ResetTimes ==
    {Epoch + minutes * MS_PER_MINUTE + ms :
        minutes \in (-2)..MaxMinutes, ms \in {0, 1, 30000}}

InitFormat ==
    /\ now = Epoch
    /\ ticks = 0
    /\ InitNotificationService
    /\ InitCCUsageService
    /\ InitClaudeOAuthService
    /\ InitSettingsService
    /\ ledger = <<>>
    /\ \E resetsAt \in ResetTimes : probe = [fn |-> "resetsAt", resetsAt |-> resetsAt]

NextFormat == formatCalled

SpecFormat == InitFormat /\ [][NextFormat]_vars

----------------------------------------------------------------------------
(* SpecSettings: the settings file, the two settings handlers, and the menu   *)
(* bar data polled while settings are saved                                   *)

Optional(k, values) == {<<>>} \cup {Only(k, value) : value \in values}

Thresholds(warning, critical) == [warning |-> warning, critical |-> critical]

\* what the text of the settings file can parse to: each field left out, there
\* with a value, or there with an empty string or a null
RawSettings ==
    {Spread(Spread(mode, source), thresholds) :
        mode \in Optional("menuBarDisplayMode", {"alternate", "cost", ""}),
        source \in Optional("menuBarCostSource", {"sessionWindow", ""}),
        thresholds \in Optional("notificationThresholds",
                                {Thresholds(50, 60), JsonNull})}

StoredFiles ==
    {NoFile, [kind |-> "unreadable"], [kind |-> "corrupt"], [kind |-> "null"]}
    \cup {stringify(rawSettings) : rawSettings \in RawSettings}

\* what the settings window sends to the save-settings handler
PartialSettings ==
    {Spread(Spread(mode, source), thresholds) :
        mode \in Optional("menuBarDisplayMode", {"percentage"}),
        source \in Optional("menuBarCostSource", {"today", "sessionWindow"}),
        thresholds \in Optional("notificationThresholds", {Thresholds(50, 60)})}

\* utilizations between the thresholds the settings can hold and the fixed ones
SettingsUtilizations == {550, 950}

\* the state after initialize() has loaded the settings and applied the cost
\* source (part_000, lines 31-36)
InitSettings ==
    /\ now = Epoch
    /\ ticks = 0
    /\ InitNotificationService
    /\ InitClaudeOAuthService
    /\ objects = InitialObjects
    /\ settingsFile \in StoredFiles
    /\ settingsCall = NoSettingsCall
    /\ cachedStats = NoStats
    /\ lastUpdate = 0
    /\ menuBarCostSource = loadSettings(settingsFile).settings.menuBarCostSource
    /\ sessionBlocks = <<>>
    /\ calls = [c \in CallIds |-> Idle]
    /\ watch = [made |-> -1, pending |-> TRUE]
    /\ ledger = <<>>
    /\ probe = NoProbe

NextSettings ==
    \/ loadSettingsHandler
    \/ \E settings \in PartialSettings, writeFails \in BOOLEAN :
           saveSettingsHandler(settings, writeFails)
    \/ getUsageStats("poll", TRUE)
    \/ \E u \in SettingsUtilizations :
           fetchesSettled("poll", Loaded(<<>>), Loaded(<<>>), OAuthResponse(u, 250))
    \/ callReturns("poll")
    \/ callerDone("poll")

SpecSettings == InitSettings /\ [][NextSettings]_vars

----------------------------------------------------------------------------
(* SpecConfigure: the configuration changed while the three services hold     *)
(* state: the tray update of the polling timer fetches the statistics, the    *)
(* rate-limit client fetches the utilization, and the menu bar data goes to   *)
(* the notification gate                                                      *)

\* updateTrayTitle hands the menu bar data to the gate (part_000, line 135)
trayNotifies(c) ==
    /\ calls[c].pc = "returned" /\ calls[c].forMenuBar
    /\ checkAndNotify(calls[c].data, "auto")

\* the settings of a save that changes the display mode only, or the thresholds
SourcelessSettings ==
    {Only("menuBarDisplayMode", "percentage"),
     Only("notificationThresholds", Thresholds(50, 60))}

\* the state after a first tray update has fetched the utilization: the rate-limit
\* client holds it, and serves it to the fetches of the run (part_002, lines 76-78)
InitConfigure ==
    /\ now = Epoch
    /\ ticks = 0
    /\ InitNotificationService
    /\ InitCCUsageService
    /\ cachedUsage \in FetchedUsage \ {NullUsage}
    /\ lastFetch = Epoch
    /\ credential = "token"
    /\ usageCalls = [c \in CallIds |-> Idle]
    /\ oauthWatch = [NoUsageWatch EXCEPT !.made = Epoch]
    /\ InitSettingsService
    /\ ledger = <<>>
    /\ probe = NoProbe

NextConfigure ==
    \/ \E config \in Configurations : updateConfiguration(config)
    \/ \E settings \in SourcelessSettings : saveSettingsHandler(settings, FALSE)
    \/ getUsageStats("poll", TRUE)
    \/ \E blocks \in BlockLedgers, dailyData \in DailyLedgers :
           fetchesSettled("poll", Loaded(blocks), Loaded(dailyData), cachedUsage)
    \/ callReturns("poll")
    \/ callerDone("poll")
    \/ trayNotifies("poll")
    \/ timerComesDue
    \/ ReleaseLock

SpecConfigure == InitConfigure /\ [][NextConfigure]_vars

----------------------------------------------------------------------------
(* SpecDefaults: callers that take the default settings and change the record *)
(* they were returned                                                         *)

InitDefaults ==
    /\ now = Epoch
    /\ ticks = 0
    /\ InitNotificationService
    /\ InitCCUsageService
    /\ InitClaudeOAuthService
    /\ objects = InitialObjects
    /\ settingsFile \in {NoFile, [kind |-> "corrupt"], stringify(<<>>),
                         stringify(Only("menuBarDisplayMode", "cost"))}
    /\ settingsCall = NoSettingsCall
    /\ ledger = <<>>
    /\ probe = NoProbe

NextDefaults ==
    \/ getDefaultSettingsCalled
    \/ loadSettingsHandler
    \/ \E value \in {"percentage", "cost"} : callerSetsField("menuBarDisplayMode", value)
    \/ callerSetsField("menuBarCostSource", "sessionWindow")
    \/ \E k \in {"warning", "critical"}, value \in {50, 95} : callerSetsThreshold(k, value)

SpecDefaults == InitDefaults /\ [][NextDefaults]_vars

----------------------------------------------------------------------------
(* SpecLock: the notification gate with its timer; the event loop runs a timer *)
(* callback once its delay has elapsed                                         *)

NextLock ==
    \/ \E stats \in StatsInputs, source \in Sources :
           checkAndNotify(menuBarData(stats, menuBarCostSource, sessionBlocks, now), source)
    \/ ReleaseLock
    \/ timerComesDue
    \/ \E d \in GateDeltas : Tick(d)

SpecLock == Init /\ [][NextLock]_vars /\ WF_vars(timerComesDue) /\ WF_vars(ReleaseLock)

----------------------------------------------------------------------------
(* SpecJoin: the three fetches of Promise.all, each settling in its own time *)

FetchSources == {"blocks", "dailyData", "oauthData"}

\* the fetches of a call that have settled so far, with what they settled to
SettledOf(call) == IF "settled" \in DOMAIN call THEN call.settled ELSE <<>>

\* the fetches of a call that had not settled when the call went on
UnsettledOf(call) ==
    IF "unsettled" \in DOMAIN call.obs THEN call.obs.unsettled ELSE {}

\* what a source can settle to; getUsageData() never rejects
SettlesTo(source) ==
    IF source = "blocks" THEN {Failed} \cup {Loaded(b) : b \in BlockLedgers}
    ELSE IF source = "dailyData" THEN {Failed} \cup {Loaded(d) : d \in DailyLedgers}
    ELSE FetchedUsage

Rejected(result) == result = Failed

\* one of the three promises of lines 82-91 settles.  Promise.all rejects with
\* the first rejection, and the await of line 82 then goes to the catch of line
\* 119, whatever the other promises are doing; it fulfils when the last of the
\* three has fulfilled, and lines 93-117 run
sourceSettles(c, source, result) ==
    /\ calls[c].pc = "fetching"
    /\ source \notin DOMAIN SettledOf(calls[c])
    /\ LET settled == Spread(SettledOf(calls[c]), Only(source, result))
           unsettled == FetchSources \ DOMAIN settled
       IN  IF Rejected(result)
           THEN /\ Resolve(c, calls[c].forMenuBar, caught(now),
                           Spread([calls[c].obs EXCEPT !.failed = TRUE],
                                  Only("unsettled", unsettled)))
                /\ UNCHANGED <<now, ticks, settingsState, ledger, probe, gateState,
                               oauthState, cachedStats, lastUpdate, menuBarCostSource,
                               sessionBlocks, watch>>
           ELSE IF unsettled = {}
           THEN fetchesSettled(c, settled.blocks, settled.dailyData, settled.oauthData)
           ELSE /\ calls' = [calls EXCEPT ![c] = Spread(calls[c], Only("settled", settled))]
                /\ UNCHANGED <<now, ticks, settingsState, ledger, probe, gateState,
                               oauthState, cachedStats, lastUpdate, menuBarCostSource,
                               sessionBlocks, watch>>

NextJoin ==
    \/ \E c \in CallIds, forMenuBar \in BOOLEAN : getUsageStats(c, forMenuBar)
    \/ \E c \in CallIds, source \in FetchSources :
          \E result \in SettlesTo(source) : sourceSettles(c, source, result)
    \/ \E c \in CallIds : callReturns(c)
    \/ \E c \in CallIds : callerDone(c)

SpecJoin == Init /\ [][NextJoin]_vars

----------------------------------------------------------------------------
(* SpecDelivery: the notification gate on a platform that shows notifications, *)
(* does not support them, or throws when asked                                *)

InitDelivery ==
    /\ now = Epoch
    /\ ticks = 0
    /\ lastNotificationTime = 0
    /\ lastWarningLevel = "safe"
    /\ lastNotificationData = NoIdentifier
    /\ notificationInProgress = FALSE
    /\ lockTimers = {}
    /\ notifierCalls = <<>>
    /\ last = NoCall
    /\ summary = [called |-> FALSE, behaviour |-> "supported", threw |-> FALSE,
                  sent |-> "nothing", locked |-> FALSE, cooling |-> FALSE,
                  kept |-> TRUE]
    /\ track = [on |-> TRUE, calls |-> <<>>]
    /\ notifier \in NotifierBehaviours
    /\ InitCCUsageService
    /\ InitClaudeOAuthService
    /\ InitSettingsService
    /\ ledger = <<>>
    /\ probe = NoProbe

NextDelivery ==
    \/ \E stats \in StatsInputs, source \in Sources :
           checkAndNotify(menuBarData(stats, menuBarCostSource, sessionBlocks, now), source)
    \/ ReleaseLock
    \/ \E d \in GateDeltas : Tick(d)

SpecDelivery == InitDelivery /\ [][NextDelivery]_vars

----------------------------------------------------------------------------
(* Properties of the notification gate *)

PreTime == last.pre[1]
PreLevel == last.pre[2]
PreData == last.pre[3]
PreInProgress == last.pre[4]

\* C1: any two alerts checkAndNotify sends are at least NOTIFICATION_COOLDOWN apart,
\* and a call made less than the cooldown after lastNotificationTime does not fire,
\* a critical one after a warning alert included.
C1_CooldownSpacing ==
    /\ \A i, j \in 1..Len(notifierCalls) :
           i < j => notifierCalls[j].at - notifierCalls[i].at >= NOTIFICATION_COOLDOWN
    /\ (last.called /\ last.at - PreTime < NOTIFICATION_COOLDOWN) => ~last.fired
    /\ (last.called /\ ~last.cooled) => last.sends = 0

\* a critical snapshot arrives, lock released, inside the cooldown of a warning alert
C1_Witness ==
    /\ last.called /\ last.status = "critical" /\ PreLevel = "warning"
    /\ ~PreInProgress /\ PreData # dataIdentifier(last)
    /\ last.at - PreTime < NOTIFICATION_COOLDOWN
    /\ Len(notifierCalls) = 1

\* C2 as stated: of two consecutive calls with the same status and the same rounded
\* percentage the second never fires, whether or not the first fired.
C2_SecondNeverFires ==
    (last.called /\ last.repeats) => ~last.fired

\* C2 amended: when the first of two consecutive calls with the same identifier
\* fired, the second does not fire, however long after the first it comes.
C2_SecondNeverFiresAfterFire ==
    (last.called /\ last.repeats /\ last.afterFired) => (~last.fired /\ last.sends = 0)

\* the repeat comes after the cooldown has elapsed and the lock is released
C2_Witness ==
    /\ last.called /\ last.repeats /\ last.afterFired
    /\ last.cooled /\ ~PreInProgress

ScenarioFires == <<FALSE, TRUE, TRUE, FALSE, FALSE, FALSE>>

\* C3: on safe, warning, critical, critical, warning, safe from the initial state,
\* with distinct identifiers and each call outside the cooldown of the alert before
\* it, exactly the second and the third call fire.
C3_EdgeSequence ==
    track.on => \A i \in 1..Len(track.calls) : track.calls[i].fired = ScenarioFires[i]

C3_Witness == track.on /\ Len(track.calls) = Len(Scenario)

\* C4: once a critical alert has fired and a safe snapshot has been processed after
\* it, lastWarningLevel is safe and the next critical snapshot (new identifier,
\* outside the cooldown, lock released) fires.
C4_RearmsAfterSafe ==
    ( /\ last.called /\ last.afterSafeAfterCritical
      /\ last.status = "critical"
      /\ PreData # dataIdentifier(last) /\ last.cooled /\ ~PreInProgress )
    => (PreLevel = "safe" /\ last.fired)

RisingEdge(status, lastLevel) ==
    \/ status = "critical" /\ lastLevel # "critical"
    \/ status = "warning" /\ lastLevel = "safe"

\* C5: a call fires only on a rising edge of its status over lastWarningLevel; a
\* safe snapshot never fires, nor one whose status is lastWarningLevel.
C5_FiresOnRisingEdgeOnly ==
    last.called =>
        /\ (last.fired \/ last.sends > 0) => RisingEdge(last.status, PreLevel)
        /\ last.status = "safe" => ~last.fired
        /\ last.status = PreLevel => ~last.fired

C5_Witness ==
    last.called /\ last.fired /\ last.status = "critical" /\ PreLevel = "warning"

\* C6: a call that fires sends exactly one notification and leaves the lock taken,
\* lastNotificationTime at the time of the call, lastWarningLevel at the status and
\* lastNotificationData at the identifier of its snapshot.
C6_FireRecordsState ==
    (last.called /\ last.fired) =>
        /\ last.sends = 1
        /\ last.post = <<last.at, last.status,
                         <<last.status, Round(last.percentageUsed)>>, TRUE>>
        /\ notifierCalls[Len(notifierCalls)] =
               [title |-> titleOf(last.status), at |-> last.at]

C6_Witness ==
    last.called /\ last.fired /\ last.status = "warning" /\ last.percentageUsed = 895

\* C7: a call made while notificationInProgress is true sends nothing and changes
\* none of the four fields, whatever its snapshot and trigger.
C7_LockedCallDoesNothing ==
    (last.called /\ PreInProgress) =>
        (~last.fired /\ last.sends = 0 /\ last.post = last.pre)

\* a worse status with a new identifier arrives while the lock is held
C7_Witness ==
    /\ last.called /\ PreInProgress
    /\ last.status = "critical" /\ PreLevel = "warning"
    /\ PreData # dataIdentifier(last)

\* C8: neither checkAndNotify nor sendDailySummary lets an exception out, whatever
\* the Notification class does.
C8_NeverRaises ==
    /\ last.called => ~last.threw
    /\ summary.called => ~summary.threw

----------------------------------------------------------------------------
(* Properties of the menu bar data *)

\* the invocations of getMenuBarData that have returned
MenuBarReturns == {c \in CallIds : calls[c].pc = "returned" /\ calls[c].forMenuBar}

\* C9: the status of every MenuBarData returned is decided by its percentageUsed:
\* safe on [0, 70), warning on [70, 90), critical on [90, 100].
C9_StatusByPercentage ==
    \A c \in MenuBarReturns :
        LET p == calls[c].data.percentageUsed
            status == calls[c].data.status
        IN  /\ (0 <= p /\ p < 70 * 10) => status = "safe"
            /\ (70 * 10 <= p /\ p < 90 * 10) => status = "warning"
            /\ (90 * 10 <= p /\ p <= 100 * 10) => status = "critical"
            /\ status \in {"safe", "warning", "critical"}

\* a snapshot at the warning threshold has come back
C9_Witness ==
    \E c \in MenuBarReturns :
        /\ calls[c].data.percentageUsed = 70 * 10
        /\ calls[c].data.status = "warning"

\* C10: when the stats getMenuBarData got carry no rate-limit data, or data with
\* isAvailable false, it returns percentageUsed 0 and status safe; otherwise
\* percentageUsed is the utilization of the five-hour window.
C10_PercentageFromFiveHour ==
    \A c \in MenuBarReturns :
        LET oauth == calls[c].stats.oauthUtilization
            data == calls[c].data
        IN  IF oauth = NoOAuth \/ ~oauth.isAvailable
            THEN data.percentageUsed = 0 /\ data.status = "safe"
            ELSE data.percentageUsed = oauth.fiveHour.utilization

\* one invocation came back without rate-limit data, another with it
C10_Witness ==
    /\ calls["poll"].pc = "returned"
    /\ calls["poll"].stats.oauthUtilization = NoOAuth
    /\ calls["poll"].data.percentageUsed = 0
    /\ calls["ipc"].pc = "returned" /\ calls["ipc"].forMenuBar
    /\ calls["ipc"].stats.oauthUtilization # NoOAuth
    /\ calls["ipc"].data.percentageUsed = 895

----------------------------------------------------------------------------
(* Properties of the snapshot cache *)

Fetching == {c \in CallIds : calls[c].pc = "fetching"}

\* the calls whose getUsageStats has come to its result
Resolved == {c \in CallIds : calls[c].pc = "resolved"}

\* the calls that are past the cache test of line 76
Made == Fetching \cup Resolved

\* C11: at most one aggregation fetch is in flight at any time; calls that overlap
\* while the cache is empty or expired share one fetch of the three sources.
C11_OneFetchInFlight == Cardinality(Fetching) <= 1

\* C12: a call made less than CACHE_DURATION after a call that fetched with success
\* was made, no updateConfiguration in between, is served from the cache and issues
\* no fetch.
C12_FreshCallServedFromCache ==
    \A c \in Made : calls[c].obs.fresh => calls[c].obs.hit

\* C13: the first call after an updateConfiguration is not served from the cache,
\* also when a fetch under way at the updateConfiguration has settled since.
C13_NextCallRefetches ==
    \A c \in Made : calls[c].obs.afterConfig => ~calls[c].obs.hit

C15_FailureDegradesOwnFieldOnly ==
    \A c \in Resolved :
        calls[c].obs.oauthFetched => calls[c].stats.oauthUtilization # NoOAuth

\* C38: under overlapping fetches the cache is never overwritten by older data:
\* lastUpdate never decreases, so the stats and the session blocks a call wrote are
\* never replaced by those of a call that started earlier.
C38_CacheNeverRolledBack ==
    [][/\ lastUpdate' >= lastUpdate
       /\ \A c \in CallIds :
              (/\ calls[c].pc = "fetching" /\ calls'[c].pc = "resolved"
               /\ calls[c].started < lastUpdate)
                  => /\ cachedStats' = cachedStats
                     /\ sessionBlocks' = sessionBlocks]_vars

----------------------------------------------------------------------------
(* Properties of the rate-limit client *)

\* the getUsageData calls that are past the cache test of line 76
UsageMade == {c \in CallIds : usageCalls[c] # Idle}

UsageDone == {c \in CallIds : usageCalls[c].pc = "done"}

\* C16: a call made less than OAUTH_CACHE_DURATION after a call that fetched with
\* success was made, no clearCache in between, returns the cached value with no
\* Keychain read and no request.
C16_FreshCallServedFromCache ==
    \A c \in UsageMade : usageCalls[c].obs.fresh => usageCalls[c].obs.hit

\* C17 as stated: a call made and carried out while the Keychain holds no credential
\* returns null, also when a value fetched earlier is within its cache window.
C17_NoCredentialReturnsAbsent ==
    \A c \in UsageDone :
        (~usageCalls[c].obs.credentialAtCall /\ ~usageCalls[c].obs.credentialAtLookup)
            => usageCalls[c].result = NullUsage

\* C17 amended: a call that is not served from the cache and finds no credential in
\* the Keychain returns null and sends no request; no request goes out without a
\* credential.
C17_NoCredentialAtLookupReturnsAbsent ==
    /\ \A c \in UsageDone :
           (~usageCalls[c].obs.hit /\ ~usageCalls[c].obs.credentialAtLookup)
               => (usageCalls[c].result = NullUsage /\ usageCalls[c].requests = 0)
    /\ \A c \in UsageMade :
           usageCalls[c].pc = "request" => usageCalls[c].obs.credentialAtLookup

\* the credential is gone and the value fetched with it has outlived its window
C17_Witness ==
    \E c \in UsageDone :
        /\ ~usageCalls[c].obs.hit /\ ~usageCalls[c].obs.credentialAtLookup
        /\ cachedUsage # NullUsage
        /\ usageCalls[c].result = NullUsage

\* C18: getUsageData hands no exception to its caller, sends at most one request,
\* and returns null when the Keychain read or the request fails.
C18_FailsSoft ==
    \A c \in UsageDone :
        /\ ~usageCalls[c].threw
        /\ usageCalls[c].requests <= 1
        /\ usageCalls[c].obs.failed => usageCalls[c].result = NullUsage

\* a request was sent and its answer lacked a window
C18_Witness ==
    \E c \in UsageDone :
        /\ usageCalls[c].obs.failed /\ usageCalls[c].requests = 1
        /\ usageCalls[c].result = NullUsage /\ ~usageCalls[c].threw

\* C19: no call made after a clearCache returns a value that came from a request
\* sent before that clearCache.
C19_NoValueFromClearedRequest ==
    \A c \in UsageDone : ~usageCalls[c].obs.fromClearedRequest

\* the cache test of line 76 fails
CacheExpired == cachedUsage = NullUsage \/ now - lastFetch >= OAUTH_CACHE_DURATION

\* C37: a getUsageData call that fails (no credential, or a request that fails, is
\* refused, or answers with no JSON or with a window missing) returns null and
\* leaves cachedUsage and lastFetch as they were; a call made after it, the cache
\* absent or expired, goes to the Keychain again.
C37_FailureNotCached ==
    [][/\ \A c \in CallIds :
              (/\ usageCalls[c].pc \in {"lookup", "request"}
               /\ usageCalls'[c].pc = "done" /\ usageCalls'[c].obs.failed)
                  => /\ usageCalls'[c].result = NullUsage
                     /\ cachedUsage' = cachedUsage /\ lastFetch' = lastFetch
       /\ \A c \in CallIds :
              (/\ usageCalls[c] = Idle /\ usageCalls'[c] # Idle
               /\ usageCalls'[c].obs.afterFailure /\ CacheExpired)
                  => usageCalls'[c].pc = "lookup"]_vars

\* a request failed while an expired value was held, nothing was returned of it, and
\* the call made next has sent a request of its own
C37_Witness ==
    \E c, o \in CallIds :
        /\ usageCalls[c].pc = "done" /\ usageCalls[c].obs.failed
        /\ usageCalls[c].requests = 1 /\ usageCalls[c].result = NullUsage
        /\ cachedUsage # NullUsage /\ now - lastFetch >= OAUTH_CACHE_DURATION
        /\ usageCalls[o].pc = "request" /\ usageCalls[o].obs.afterFailure

----------------------------------------------------------------------------
(* Properties of the menu bar cost *)

RECURSIVE SumCosts(_, _)
SumCosts(blocks, chosen) ==
    IF chosen = {} THEN 0
    ELSE LET i == CHOOSE i \in chosen : TRUE
         IN  blocks[i].costUSD + SumCosts(blocks, chosen \ {i})

\* C20: the cost of the menu bar data is today.totalCost under cost source today;
\* under sessionWindow it is the sum of costUSD over the session blocks that are no
\* gaps and started in the five hours up to now; the blocks at now-6h (5), now-2h (3)
\* and now-1h (2, a gap) give 3.
C20_CostBySource ==
    \A c \in MenuBarReturns :
        LET counted == {i \in DOMAIN sessionBlocks :
                           /\ ~sessionBlocks[i].isGap
                           /\ now - sessionBlocks[i].startTime <= 5 * MS_PER_HOUR}
            cost == calls[c].data.cost
        IN  /\ menuBarCostSource = "today" => cost = cachedStats.today.totalCost
            /\ menuBarCostSource = "sessionWindow" =>
                   /\ cost = SumCosts(sessionBlocks, counted)
                   /\ sessionBlocks \in BlockLedgers => cost = 300

\* the three blocks of the example have been priced under sessionWindow
C20_Witness ==
    \E c \in MenuBarReturns :
        /\ menuBarCostSource = "sessionWindow"
        /\ sessionBlocks \in BlockLedgers
        /\ calls[c].data.cost = 300

\* C39: the menu bar data is derived from one fetch: when getUsageStats has fallen
\* back to the empty stats because a fetch failed, the cost of the menu bar data is
\* 0 under either cost source.
C39_FailedFetchCostsNothing ==
    \A c \in MenuBarReturns : calls[c].failed => calls[c].data.cost = 0

----------------------------------------------------------------------------
(* Properties of the daily ledger in the usage statistics *)

\* a DailyUsage is what the ledger entry comes to
ProcessedFrom(day, entry) ==
    /\ day.date = entry.date
    /\ day.totalTokens = entry.inputTokens + entry.outputTokens
                         + entry.cacheCreationTokens + entry.cacheReadTokens
    /\ day.totalCost = entry.totalCost
    /\ DOMAIN day.models =
         {entry.modelBreakdowns[i].modelName : i \in DOMAIN entry.modelBreakdowns}
         \ {"<synthetic>"}

\* the days of the statistics a call has resolved to
DaysOf(stats) == {stats.today} \cup {stats.thisWeek[i] : i \in DOMAIN stats.thisWeek}

\* C21: every ledger day is processed to a DailyUsage whose totalTokens is the sum
\* of the day's four token counts, whose totalCost is the ledger's totalCost
\* unchanged, and whose models has exactly the day's model names other than
\* '<synthetic>' as keys; the days of the statistics of a call are such days, or
\* the zero day
C21_DaysProcessedFromLedger ==
    /\ Len(processDailyData(ledger)) = Len(ledger)
    /\ \A i \in DOMAIN ledger : ProcessedFrom(processDailyData(ledger)[i], ledger[i])
    /\ \A c \in CallIds :
         calls[c].pc \in {"resolved", "returned"} =>
           \A day \in DaysOf(calls[c].stats) :
              \/ \E i \in DOMAIN ledger : ProcessedFrom(day, ledger[i])
              \/ day.totalTokens = 0 /\ day.totalCost = 0 /\ DOMAIN day.models = {}

C21_Witness ==
    /\ calls["ipc"].pc = "resolved"
    /\ ~calls["ipc"].obs.hit /\ ~calls["ipc"].obs.failed
    /\ calls["ipc"].stats.today.totalTokens = 1000
    /\ calls["ipc"].stats.today.totalCost = 125
    /\ DOMAIN calls["ipc"].stats.today.models = {"claude-sonnet-4", "claude-opus-4"}
    /\ \E i \in DOMAIN ledger : \E j \in DOMAIN ledger[i].modelBreakdowns :
          /\ ledger[i].date = DateOf(now)
          /\ ledger[i].modelBreakdowns[j].modelName = "<synthetic>"
          /\ ledger[i].modelBreakdowns[j].cost > 0

\* the step in which the fetches of a call settle and the statistics are built
Builds(c) ==
    /\ calls[c].pc = "fetching"
    /\ calls'[c].pc = "resolved"
    /\ ~calls'[c].obs.failed

\* the step in which getUsageStats hands statistics to its caller, built or cached
Resolves(c) == calls[c].pc # "resolved" /\ calls'[c].pc = "resolved"

\* the ledger days of the date of t
EntriesOf(t) == {i \in DOMAIN ledger : ledger[i].date = DateOf(t)}

\* C22: in the statistics a fetch builds, today is the processed ledger entry
\* whose date is the calendar date at the time of building when there is one,
\* and the zero DailyUsage with that date when there is none, so that today.date
\* is the date at the time of building; statistics served from the cache are the
\* ones built, with the today of the time they were built at
C22_TodayOfBuildDate ==
    [][\A c \in CallIds :
          /\ Builds(c) =>
               /\ calls'[c].stats.today.date = DateOf(now)
               /\ IF EntriesOf(now) = {}
                  THEN calls'[c].stats.today =
                         [date |-> DateOf(now), totalTokens |-> 0, totalCost |-> 0,
                          models |-> <<>>]
                  ELSE \E i \in EntriesOf(now) :
                          /\ \A j \in EntriesOf(now) : i <= j
                          /\ ProcessedFrom(calls'[c].stats.today, ledger[i])
          /\ Resolves(c) /\ calls'[c].obs.hit => calls'[c].stats = cachedStats]_vars

\* a call built today from the ledger's entry for the day
C22_Witness ==
    /\ calls["ipc"].pc = "resolved"
    /\ ~calls["ipc"].obs.hit /\ ~calls["ipc"].obs.failed
    /\ calls["ipc"].stats.today.date = DateOf(now)
    /\ calls["ipc"].stats.today.totalCost = 125

\* C22 as stated: in the statistics of every call, today.date is the current date
C22_TodayIsCurrentDate ==
    [][\A c \in CallIds :
          Resolves(c) => calls'[c].stats.today.date = DateOf(now)]_vars

\* the indices of the ledger days whose date began at most seven days before t
WithinWeek(t) ==
    {i \in DOMAIN ledger : t - ledger[i].date * MS_PER_DAY <= 7 * MS_PER_DAY}

\* the k-th smallest member of a set of indices
Nth(indices, k) == CHOOSE i \in indices : Cardinality({j \in indices : j <= i}) = k

----------------------------------------------------------------------------
(* Properties of the text of the time until a reset *)

Formatted == probe.fn = "formatTimeUntilReset"

----------------------------------------------------------------------------
(* Properties of the daily summary *)

\* C26: sendDailySummary is not gated by the alert state machine: where the
\* platform supports notifications it shows the summary whatever the state of the
\* gate, inside the cooldown and while the gate is locked as well, and in every
\* case it leaves lastNotificationTime, lastWarningLevel, lastNotificationData and
\* notificationInProgress as they were
C26_SummaryNotGated ==
    summary.called =>
        /\ summary.kept
        /\ summary.behaviour = "supported" => summary.sent = "shown"

\* a summary shown while the gate was locked, inside the cooldown of an alert
C26_Witness ==
    /\ summary.called
    /\ summary.locked /\ summary.cooling
    /\ summary.sent = "shown"
    /\ lastWarningLevel # "safe"
    /\ lastNotificationData # NoIdentifier

----------------------------------------------------------------------------
(* Properties of the settings *)

\* the thresholds the settings file holds
StoredThresholds == loadSettings(settingsFile).settings.notificationThresholds

C27_LoadFailsSoft ==
    settingsCall.op = "load" =>
        /\ ~settingsCall.threw
        /\ settingsCall.file.kind \in {"missing", "unreadable", "corrupt"} =>
              settingsCall.settings =
                  [menuBarDisplayMode |-> "both", menuBarCostSource |-> "today",
                   notificationThresholds |-> [warning |-> 70, critical |-> 90]]

C27_Witness ==
    /\ settingsCall.op = "load"
    /\ settingsCall.file.kind = "corrupt"
    /\ ~settingsCall.threw
    /\ settingsCall.settings.notificationThresholds = Thresholds(70, 90)

\* what the text of the file loadSettings read parsed to
ParsedFields ==
    IF settingsCall.file.kind = "object" THEN settingsCall.file.value ELSE <<>>

DefaultOf(k) ==
    IF k = "menuBarDisplayMode" THEN "both"
    ELSE IF k = "menuBarCostSource" THEN "today"
    ELSE Thresholds(70, 90)

\* C28: for every content of the file that parses, loadSettings returns a record
\* with all three fields: a field the file has with a value other than null and
\* the empty string keeps that value, but for a menuBarDisplayMode of 'alternate',
\* which is returned as 'both'; a field the file lacks, or has as null or as the
\* empty string, takes its default
C28_LoadMergesWithDefaults ==
    settingsCall.op = "load" /\ settingsCall.file.kind \in {"object", "null"} =>
        /\ ~settingsCall.threw
        /\ DOMAIN settingsCall.settings = SettingsFields
        /\ \A k \in SettingsFields :
              settingsCall.settings[k] =
                  IF k \notin DOMAIN ParsedFields THEN DefaultOf(k)
                  ELSE IF k = "notificationThresholds"
                  THEN (IF ParsedFields[k] = JsonNull THEN DefaultOf(k)
                        ELSE ParsedFields[k])
                  ELSE IF ParsedFields[k] = "" THEN DefaultOf(k)
                  ELSE IF k = "menuBarDisplayMode" /\ ParsedFields[k] = "alternate"
                  THEN "both"
                  ELSE ParsedFields[k]

\* a file with a display mode of 'alternate', a cost source and no thresholds
C28_Witness ==
    /\ settingsCall.op = "load"
    /\ settingsCall.file.kind = "object"
    /\ DOMAIN settingsCall.file.value = {"menuBarDisplayMode", "menuBarCostSource"}
    /\ settingsCall.file.value.menuBarDisplayMode = "alternate"
    /\ settingsCall.settings =
          [menuBarDisplayMode |-> "both", menuBarCostSource |-> "sessionWindow",
           notificationThresholds |-> Thresholds(70, 90)]

\* C28 as stated: every field the file has keeps the file's value
C28_EveryStoredFieldKept ==
    settingsCall.op = "load" /\ settingsCall.file.kind \in {"object", "null"} =>
        /\ DOMAIN settingsCall.settings = SettingsFields
        /\ \A k \in SettingsFields :
              settingsCall.settings[k] =
                  IF k \notin DOMAIN ParsedFields THEN DefaultOf(k)
                  ELSE IF k = "menuBarDisplayMode" /\ ParsedFields[k] = "alternate"
                  THEN "both"
                  ELSE ParsedFields[k]

\* C29: saveSettings(partial) writes the settings loadSettings returned just
\* before, overridden by the fields of partial: a field partial does not name
\* keeps the loaded value, a field it names takes partial's value
C29_SaveMergesWithLoaded ==
    settingsCall.op = "save" /\ ~settingsCall.threw =>
        /\ settingsFile.kind = "object"
        /\ settingsCall.current = loadSettings(settingsCall.file).settings
        /\ DOMAIN settingsFile.value = SettingsFields \cup DOMAIN settingsCall.partial
        /\ \A k \in DOMAIN settingsFile.value :
              settingsFile.value[k] =
                  IF k \in DOMAIN settingsCall.partial THEN settingsCall.partial[k]
                  ELSE settingsCall.current[k]

\* only the thresholds are saved over a file with a display mode of 'cost' and a
\* cost source of 'sessionWindow', which the file keeps
C29_Witness ==
    /\ settingsCall.op = "save" /\ ~settingsCall.threw
    /\ DOMAIN settingsCall.partial = {"notificationThresholds"}
    /\ settingsCall.file.kind = "object"
    /\ DOMAIN settingsCall.file.value = {"menuBarDisplayMode", "menuBarCostSource"}
    /\ settingsFile.value =
          [menuBarDisplayMode |-> "cost", menuBarCostSource |-> "sessionWindow",
           notificationThresholds |-> Thresholds(50, 60)]

\* the step of a save-settings handler whose write fails
SaveFails ==
    /\ settingsCall' # settingsCall
    /\ settingsCall'.op = "save"
    /\ settingsCall'.writeFails

\* C30: when writing the file fails, saveSettings rejects with the error, and
\* the save-settings handler neither applies the new cost source to the usage
\* service, nor drops its cache, nor reports success; the file is as it was
C30_FailedSaveAppliesNothing ==
    [][SaveFails =>
          /\ settingsCall'.threw
          /\ ~settingsCall'.success
          /\ menuBarCostSource' = menuBarCostSource
          /\ UNCHANGED <<usageState, settingsFile>>]_vars

\* a failed save of the cost source 'sessionWindow' while 'today' is configured
C30_Witness ==
    /\ settingsCall.op = "save"
    /\ settingsCall.writeFails /\ settingsCall.threw /\ ~settingsCall.success
    /\ "menuBarCostSource" \in DOMAIN settingsCall.partial
    /\ settingsCall.partial.menuBarCostSource = "sessionWindow"
    /\ settingsCall.sourceBefore = "today"
    /\ menuBarCostSource = "today"
    /\ cachedStats # NoStats

----------------------------------------------------------------------------
(* Properties of the default settings *)

TheDefaults ==
    [menuBarDisplayMode |-> "both", menuBarCostSource |-> "today",
     notificationThresholds |-> [warning |-> 70, critical |-> 90]]

\* C31: getDefaultSettings returns a copy: whatever a caller has assigned to the
\* fields of a record getDefaultSettings returned, or to the fields of its
\* notificationThresholds, every later getDefaultSettings call returns the
\* defaults, and so does every loadSettings call for what it takes from them
C31_DefaultsAreACopy ==
    /\ settingsCall.op = "getDefaultSettings" => settingsCall.settings = TheDefaults
    /\ settingsCall.op = "load" =>
          \A k \in SettingsFields :
             k \notin DOMAIN ParsedFields => settingsCall.settings[k] = TheDefaults[k]

----------------------------------------------------------------------------
(* Properties of the in-flight lock *)

\* C32: the lock is bounded in time: whenever notificationInProgress is true it is
\* false again later, whatever checkAndNotify calls are made meanwhile (the
\* timer of a fire releases it), and it becomes true only in a call that fires
C32_LockReleased ==
    /\ notificationInProgress ~> ~notificationInProgress
    /\ [][~notificationInProgress /\ notificationInProgress' =>
             /\ last'.fired
             /\ last'.at = now
             /\ Len(notifierCalls') = Len(notifierCalls) + 1]_vars

\* the lock of an alert has been released by its timer, a second after the fire
C32_Witness ==
    /\ notifierCalls # <<>>
    /\ ~notificationInProgress
    /\ lockTimers = {}
    /\ now = LastAlertAt + LOCK_RELEASE_DELAY

----------------------------------------------------------------------------
(* Properties of the joined fetches *)

\* C33: on a cache miss getUsageStats has started all three fetches before it
\* waits, and it has its result, merged or not, only when all three fetches have
\* settled, with success or with failure
C33_WaitsForAllThree ==
    \A c \in CallIds :
        calls[c].pc = "resolved" /\ ~calls[c].obs.hit => UnsettledOf(calls[c]) = {}

----------------------------------------------------------------------------
(* Properties of the recorded level *)

Severity(level) == IF level = "critical" THEN 2 ELSE IF level = "warning" THEN 1 ELSE 0

AlertsOf(level) == {i \in DOMAIN notifierCalls : notifierCalls[i].title = titleOf(level)}

\* C34: lastWarningLevel never decreases in severity: it changes only in a call
\* that fires, to warning or to critical, and never back to safe; and since the
\* start there is at most one warning alert and at most one critical alert
C34_LevelOnlyRises ==
    /\ [](/\ Cardinality(AlertsOf("warning")) <= 1
          /\ Cardinality(AlertsOf("critical")) <= 1)
    /\ [][lastWarningLevel' # lastWarningLevel =>
             /\ last'.fired /\ last'.at = now
             /\ lastWarningLevel' = last'.status
             /\ Severity(lastWarningLevel') > Severity(lastWarningLevel)]_vars

\* a warning alert and a critical alert have been sent, and a later call with a
\* warning status has not fired
C34_Witness ==
    /\ Cardinality(AlertsOf("warning")) = 1
    /\ Cardinality(AlertsOf("critical")) = 1
    /\ lastWarningLevel = "critical"
    /\ last.called /\ last.status = "warning" /\ ~last.fired
    /\ last.cooled

\* C35: a checkAndNotify call that does not fire, for a repeated identifier, a
\* held lock, the cooldown or no rising edge, leaves lastNotificationTime,
\* lastWarningLevel, lastNotificationData and notificationInProgress as they were;
\* the four fields change only in a call that fires and when the timer releases
\* the lock
C35_OnlyFiresAndTimerChangeFields ==
    /\ [](last.called /\ ~last.fired => last.post = last.pre /\ last.sends = 0)
    /\ [][gateVars' # gateVars =>
             \/ last'.fired /\ last'.at = now /\ last'.post = gateVars'
             \/ /\ notificationInProgress /\ ~notificationInProgress'
                /\ lockTimers' # lockTimers
                /\ UNCHANGED <<lastNotificationTime, lastWarningLevel,
                               lastNotificationData>>]_vars

\* a call made while the lock of a warning alert was held: nothing has changed
C35_Witness ==
    /\ last.called /\ ~last.fired
    /\ last.post = last.pre
    /\ last.pre[4]
    /\ lastWarningLevel = "warning"

----------------------------------------------------------------------------
(* Properties of an alert the Notifier does not deliver *)

\* C36: when checkAndNotify fires and the Notifier does not support notifications
\* or throws, the alert is recorded as sent all the same: lastNotificationTime,
\* lastWarningLevel and lastNotificationData are set as for an alert that was
\* shown, and a later call at the recorded level does not fire
C36_UndeliveredAlertRecorded ==
    last.called =>
        /\ last.fired =>
              /\ ~last.threw
              /\ last.post = <<last.at, last.status, dataIdentifier(last), TRUE>>
        /\ last.fired /\ notifier # "supported" => last.delivery # "shown"
        /\ last.status = last.pre[2] => ~last.fired

\* on a platform whose show() throws, a warning alert was recorded; a call with
\* another warning percentage, the cooldown over and the lock released, has not
\* fired
C36_Witness ==
    /\ notifier = "showThrows"
    /\ last.called /\ ~last.fired
    /\ last.status = "warning" /\ last.pre[2] = "warning"
    /\ last.pre[3] # dataIdentifier(last)
    /\ ~last.pre[4]
    /\ last.cooled
    /\ Len(notifierCalls) = 1

====
